---- MODULE Spec2Model ----
(***************************************************************************)
(* Body Systems Race (src/app.py): the competitor's single-tick update,    *)
(* the race loop of simulate_race and the result ranking of main.          *)
(*                                                                         *)
(* Python floats are modelled as fixed-point numbers: the integer x stands *)
(* for the float x / Scale.  Every product and quotient is rounded to the  *)
(* nearest representable value, as a float operation is.                   *)
(***************************************************************************)
EXTENDS Integers, Sequences, FiniteSets, TLC

VARIABLES runners, t, frames, pc, ordered, table_data, call

vars == <<runners, t, frames, pc, ordered, table_data, call>>

\* ------------------------------------------------------------------------
\* Numbers
\* ------------------------------------------------------------------------

\* Resolution of the fixed-point model of float: 1000 units are 1.0.
Scale == 1000

\* a * b on floats.
Mul(a, b) == (a * b + Scale \div 2) \div Scale

\* a / b on floats, b > 0.
Div(a, b) == (a * Scale + b \div 2) \div b

\* int(x): truncation toward zero.
Trunc(x) == IF x >= 0 THEN x \div Scale ELSE -((-x) \div Scale)

Max(a, b) == IF a >= b THEN a ELSE b

Min(a, b) == IF a <= b THEN a ELSE b

\* ------------------------------------------------------------------------
\* 1. Core configuration
\* ------------------------------------------------------------------------

RACE_DISTANCE == 200000

DT == 100

MAX_RACE_TIME == 40000

\* finish_time: float | None = None
None == -1

\* ------------------------------------------------------------------------
\* 2. Data model
\* ------------------------------------------------------------------------

\* The static parameters of one runner, as create_runners passes them.
Config(name, system, acc, top, smax, regen, burst, fatigue, personality, ability) ==
    [name |-> name, system |-> system, acceleration |-> acc, top_speed |-> top,
     stamina_max |-> smax, stamina_regen |-> regen, burst_multiplier |-> burst,
     fatigue_factor |-> fatigue, personality |-> personality, ability |-> ability]

\* BodySystemRunner(...) followed by __post_init__: the dynamic state starts
\* at the dataclass defaults and stamina at stamina_max.
BodySystemRunner(c, lane) ==
    [name |-> c.name, system |-> c.system, lane |-> lane,
     acceleration |-> c.acceleration, top_speed |-> c.top_speed,
     stamina_max |-> c.stamina_max, stamina_regen |-> c.stamina_regen,
     burst_multiplier |-> c.burst_multiplier, fatigue_factor |-> c.fatigue_factor,
     personality |-> c.personality, ability |-> c.ability,
     position |-> 0, speed |-> 0, stamina |-> c.stamina_max,
     finished |-> FALSE, finish_time |-> None]

\* update, step 1: the personality's target speed.
TargetSpeed(r, race_progress) ==
    LET base_target == Mul(800, r.top_speed) IN
    IF r.personality = "aggressive"
      THEN Min(r.top_speed, base_target + Mul(150, r.top_speed))
    ELSE IF r.personality = "calm" THEN base_target
    ELSE IF r.personality = "tactical"
      THEN IF race_progress < 400 THEN Mul(700, r.top_speed)
           ELSE IF race_progress < 800 THEN Mul(900, r.top_speed)
           ELSE r.top_speed
    ELSE IF r.personality = "steady" THEN Mul(850, r.top_speed)
    ELSE base_target

\* AbilityStamina with the deep_inhale trigger on round(position).
AbilityStamina_RoundedPosition(r, dt) ==
    IF r.ability = "heart_engine" /\ r.speed < r.top_speed
      THEN r.stamina + Mul(Mul(r.stamina_regen, 1200), dt)
    ELSE IF r.ability = "deep_inhale" /\ Trunc(r.position + Scale \div 2) % 20 = 0
                                      /\ r.position > 0
      THEN r.stamina + Mul(Mul(r.stamina_regen, 3000), dt)
    ELSE r.stamina

\* update, step 2, the abilities that act on stamina: heart_engine and
\* deep_inhale.  The result is self.stamina before the stamina mechanics.
AbilityStamina(r, dt) ==
    IF r.ability = "heart_engine" /\ r.speed < r.top_speed
      THEN r.stamina + Mul(Mul(r.stamina_regen, 1200), dt)
    ELSE IF r.ability = "deep_inhale" /\ Trunc(r.position) % 20 = 0 /\ r.position > 0
      THEN r.stamina + Mul(Mul(r.stamina_regen, 3000), dt)
    ELSE r.stamina

\* update, step 2, the abilities that act on target_speed.  stamina is
\* self.stamina as the ability branches above left it.
AbilityTarget(r, target_speed, stamina, global_time, race_progress) ==
    IF r.ability = "power_burst" /\ race_progress < 250
      THEN Min(Mul(r.top_speed, 1100), Mul(target_speed, 1150))
    ELSE IF r.ability = "reflex_start" /\ global_time < 1500
      THEN Min(r.top_speed, Mul(target_speed, 1200))
    ELSE IF r.ability = "adrenaline_surge" /\ race_progress > 600
      THEN Min(Mul(r.top_speed, r.burst_multiplier),
               Mul(target_speed, r.burst_multiplier))
    ELSE IF r.ability = "energy_conversion" /\ stamina < Mul(300, r.stamina_max)
      THEN Min(Mul(r.top_speed, 1050), Mul(target_speed, 1100))
    ELSE target_speed

\* speed_fraction of step 3, with its guard against a division by zero.
SpeedFraction(r) == IF r.top_speed > 0 THEN Div(r.speed, r.top_speed) ELSE 0

\* StaminaMechanics without the upper end of the clamp.
StaminaMechanics_NoUpperClamp(r, stamina, dt) ==
    LET speed_fraction == SpeedFraction(r)
        drain_rate == 500 + Mul(1500, speed_fraction)
        drained == stamina - Mul(drain_rate, dt)
        regen == IF speed_fraction < 700
                   THEN drained + Mul(r.stamina_regen, dt)
                   ELSE drained
    IN Max(0, regen)

\* update, step 3: drain, regeneration below 70% of top speed, clamp.
StaminaMechanics(r, stamina, dt) ==
    LET speed_fraction == SpeedFraction(r)
        drain_rate == 500 + Mul(1500, speed_fraction)
        drained == stamina - Mul(drain_rate, dt)
        regen == IF speed_fraction < 700
                   THEN drained + Mul(r.stamina_regen, dt)
                   ELSE drained
    IN Max(0, Min(regen, r.stamina_max))

\* EffectiveTargetSpeed without the floor of structural_stability.
EffectiveTargetSpeed_NoFloor(r, target_speed, stamina) ==
    LET stamina_fraction == IF r.stamina_max > 0 THEN Div(stamina, r.stamina_max) ELSE 0
        penalty == Mul(Scale - stamina_fraction, r.fatigue_factor)
        fatigue_penalty == IF r.ability = "fatigue_shield" THEN Mul(penalty, 400)
                           ELSE penalty
    IN Max(0, Mul(target_speed, Scale - fatigue_penalty))

\* EffectiveTargetSpeed with the sign of the fatigue penalty reversed.
EffectiveTargetSpeed_PenaltyAdded(r, target_speed, stamina) ==
    LET stamina_fraction == IF r.stamina_max > 0 THEN Div(stamina, r.stamina_max) ELSE 0
        penalty == Mul(Scale - stamina_fraction, r.fatigue_factor)
        fatigue_penalty == IF r.ability = "fatigue_shield" THEN Mul(penalty, 400)
                           ELSE penalty
        effective == Max(0, Mul(target_speed, Scale + fatigue_penalty))
    IN IF r.ability = "structural_stability"
         THEN Max(Mul(765, r.top_speed), effective)
         ELSE effective

\* EffectiveTargetSpeed with the stability floor 0.9 + 0.85 for 0.9 * 0.85.
EffectiveTargetSpeed_FloorSum(r, target_speed, stamina) ==
    LET stamina_fraction == IF r.stamina_max > 0 THEN Div(stamina, r.stamina_max) ELSE 0
        penalty == Mul(Scale - stamina_fraction, r.fatigue_factor)
        fatigue_penalty == IF r.ability = "fatigue_shield" THEN Mul(penalty, 400)
                           ELSE penalty
        effective == Max(0, Mul(target_speed, Scale - fatigue_penalty))
    IN IF r.ability = "structural_stability"
         THEN Max(Mul(900 + 850, r.top_speed), effective)
         ELSE effective

\* update, step 4: the fatigue penalty and the effective target speed.
EffectiveTargetSpeed(r, target_speed, stamina) ==
    LET stamina_fraction == IF r.stamina_max > 0 THEN Div(stamina, r.stamina_max) ELSE 0
        penalty == Mul(Scale - stamina_fraction, r.fatigue_factor)
        fatigue_penalty == IF r.ability = "fatigue_shield" THEN Mul(penalty, 400)
                           ELSE penalty
        effective == Max(0, Mul(target_speed, Scale - fatigue_penalty))
    IN IF r.ability = "structural_stability"
         THEN Max(Mul(765, r.top_speed), effective)
         ELSE effective

\* MoveTowardTarget taking the target speed at once.
MoveTowardTarget_Instant(r, effective_target_speed, dt) == Max(0, effective_target_speed)

\* MoveTowardTarget without the checks against crossing the target.
MoveTowardTarget_Crossing(r, effective_target_speed, dt) ==
    LET up == r.speed + Mul(r.acceleration, dt)
        down == r.speed - Mul(Mul(r.acceleration, 1300), dt)
        moved == IF r.speed < effective_target_speed THEN up ELSE down
    IN Max(0, moved)

\* update, step 5: move toward the target speed without crossing it.
MoveTowardTarget(r, effective_target_speed, dt) ==
    LET up == r.speed + Mul(r.acceleration, dt)
        down == r.speed - Mul(Mul(r.acceleration, 1300), dt)
        moved == IF r.speed < effective_target_speed
                   THEN IF up > effective_target_speed THEN effective_target_speed ELSE up
                   ELSE IF down < effective_target_speed THEN effective_target_speed ELSE down
    IN Max(0, moved)

\* UpdatePosition without the clamp of the position to RACE_DISTANCE.
UpdatePosition_NoClamp(r, speed, stamina, dt, global_time) ==
    LET position == r.position + Mul(speed, dt) IN
    IF position >= RACE_DISTANCE
      THEN [r EXCEPT !.speed = speed, !.stamina = stamina,
                     !.position = position, !.finished = TRUE,
                     !.finish_time = global_time]
      ELSE [r EXCEPT !.speed = speed, !.stamina = stamina, !.position = position]

\* UpdatePosition recording the end of the tick as the finish time.
UpdatePosition_TickEnd(r, speed, stamina, dt, global_time) ==
    LET position == r.position + Mul(speed, dt) IN
    IF position >= RACE_DISTANCE
      THEN [r EXCEPT !.speed = speed, !.stamina = stamina,
                     !.position = RACE_DISTANCE, !.finished = TRUE,
                     !.finish_time = global_time + dt]
      ELSE [r EXCEPT !.speed = speed, !.stamina = stamina, !.position = position]

\* UpdatePosition moving the runner backward.
UpdatePosition_Backward(r, speed, stamina, dt, global_time) ==
    LET position == r.position - Mul(speed, dt) IN
    IF position >= RACE_DISTANCE
      THEN [r EXCEPT !.speed = speed, !.stamina = stamina,
                     !.position = RACE_DISTANCE, !.finished = TRUE,
                     !.finish_time = global_time]
      ELSE [r EXCEPT !.speed = speed, !.stamina = stamina, !.position = position]

\* update, step 6: advance the position and detect the finish.
UpdatePosition(r, speed, stamina, dt, global_time) ==
    LET position == r.position + Mul(speed, dt) IN
    IF position >= RACE_DISTANCE
      THEN [r EXCEPT !.speed = speed, !.stamina = stamina,
                     !.position = RACE_DISTANCE, !.finished = TRUE,
                     !.finish_time = global_time]
      ELSE [r EXCEPT !.speed = speed, !.stamina = stamina, !.position = position]

\* update without the early return for a finished runner.
update_NoEarlyReturn(r, dt, global_time, race_progress) ==
    LET personality_target == TargetSpeed(r, race_progress)
        ability_stamina == AbilityStamina(r, dt)
        target_speed == AbilityTarget(r, personality_target, ability_stamina,
                                      global_time, race_progress)
        stamina == StaminaMechanics(r, ability_stamina, dt)
        effective_target_speed == EffectiveTargetSpeed(r, target_speed, stamina)
        speed == MoveTowardTarget(r, effective_target_speed, dt)
    IN UpdatePosition(r, speed, stamina, dt, global_time)

\* BodySystemRunner.update(dt, global_time, race_progress).
update(r, dt, global_time, race_progress) ==
    IF r.finished THEN r
    ELSE LET personality_target == TargetSpeed(r, race_progress)
             ability_stamina == AbilityStamina(r, dt)
             target_speed == AbilityTarget(r, personality_target, ability_stamina,
                                           global_time, race_progress)
             stamina == StaminaMechanics(r, ability_stamina, dt)
             effective_target_speed == EffectiveTargetSpeed(r, target_speed, stamina)
             speed == MoveTowardTarget(r, effective_target_speed, dt)
         IN UpdatePosition(r, speed, stamina, dt, global_time)

\* ------------------------------------------------------------------------
\* 3. Runner roster
\* ------------------------------------------------------------------------

\* The eight configurations of create_runners, in roster order.
create_runners_configs ==
    << Config("Cardio", "Cardiovascular", 3000, 9500, 120000, 12000, 1100, 500,
              "calm", "heart_engine"),
       Config("Lungster", "Respiratory", 4500, 9400, 80000, 7000, 1200, 900,
              "aggressive", "deep_inhale"),
       Config("Flexor", "Muscular", 4200, 9600, 75000, 6000, 1300, 1000,
              "aggressive", "power_burst"),
       Config("Neuron", "Nervous", 3800, 9200, 90000, 8000, 1150, 700,
              "tactical", "reflex_start"),
       Config("Hormona", "Endocrine", 3500, 9700, 85000, 7000, 1300, 800,
              "tactical", "adrenaline_surge"),
       Config("Defenda", "Immune", 2800, 9000, 130000, 11000, 1050, 300,
              "steady", "fatigue_shield"),
       Config("Gastro", "Digestive", 3600, 9300, 95000, 8500, 1200, 800,
              "tactical", "energy_conversion"),
       Config("Bonestride", "Skeletal", 2400, 9100, 110000, 10000, 1100, 600,
              "steady", "structural_stability") >>

\* Further configurations a roster may hold: no ability, a personality label
\* outside the known four, runners too slow to finish, degenerate parameters.
OtherConfigs ==
    << Config("Plain", "Reference", 5000, 10000, 100000, 10000, 1000, 0,
              "calm", "none"),
       Config("Stroller", "Slow", 2000, 4000, 60000, 5000, 1000, 500,
              "relaxed", "none"),
       Config("Statue", "Degenerate", 3000, 0, 0, 0, 1000, 0,
              "steady", "heart_engine"),
       Config("Sprinter", "Converter", 6000, 12000, 20000, 0, 1000, 0,
              "tactical", "energy_conversion"),
       Config("Backward", "Degenerate", 3000, -5000, 10000, 0, 1000, 2000,
              "calm", "none"),
       Config("Pacer", "Reference", 4000, 9000, 100000, 10000, 1000, 0,
              "tactical", "none") >>

\* Rosters of one runner are drawn from Catalog.
Catalog == create_runners_configs \o OtherConfigs

\* Rosters of several runners are drawn from Pool.
Pool == << create_runners_configs[3], create_runners_configs[5],
           OtherConfigs[1], OtherConfigs[2] >>

\* Longest roster drawn from Pool.
MaxRunners == 3

\* create_runners for a sequence of configurations: lane i for the i-th.
MakeRoster(cs) == [i \in 1..Len(cs) |-> BodySystemRunner(cs[i], i)]

\* create_runners().
create_runners == MakeRoster(create_runners_configs)

SeqsUpTo(S, n) == UNION {[1..k -> S] : k \in 1..n}

Range(s) == {s[i] : i \in DOMAIN s}

Rosters ==
    {create_runners}
      \cup {MakeRoster(<<c>>) : c \in Range(Catalog)}
      \cup {MakeRoster(cs) : cs \in SeqsUpTo(Range(Pool), MaxRunners)}

\* ------------------------------------------------------------------------
\* 4. Simulation engine
\* ------------------------------------------------------------------------

RECURSIVE SumPositions(_, _)
SumPositions(rs, i) == IF i > Len(rs) THEN 0 ELSE rs[i].position + SumPositions(rs, i + 1)

\* avg_position / RACE_DISTANCE over the positions the runners hold now.
RaceProgress(rs) ==
    LET avg_position == (SumPositions(rs, 1) + Len(rs) \div 2) \div Len(rs)
    IN IF RACE_DISTANCE > 0 THEN Div(avg_position, RACE_DISTANCE) ELSE 0

\* UpdateRunners with race_progress computed anew before each runner's
\* update, from the positions the earlier runners of the tick already hold.
RECURSIVE UpdateRunners_ProgressPerRunner(_, _, _, _)
UpdateRunners_ProgressPerRunner(rs, i, global_time, race_progress) ==
    IF i > Len(rs) THEN rs
    ELSE UpdateRunners_ProgressPerRunner(
             [rs EXCEPT ![i] = update(rs[i], DT, global_time, RaceProgress(rs))],
             i + 1, global_time, race_progress)

\* for r in runners: r.update(dt=DT, global_time=t, race_progress=race_progress),
\* from the i-th runner on.
RECURSIVE UpdateRunners(_, _, _, _)
UpdateRunners(rs, i, global_time, race_progress) ==
    IF i > Len(rs) THEN rs
    ELSE UpdateRunners([rs EXCEPT ![i] = update(rs[i], DT, global_time, race_progress)],
                       i + 1, global_time, race_progress)

\* Frame stamped with the time at the end of the tick.
Frame_TickEnd(time, rs) ==
    [time |-> time + DT,
     positions |-> [i \in 1..Len(rs) |-> rs[i].position],
     stamina |-> [i \in 1..Len(rs) |-> rs[i].stamina],
     speeds |-> [i \in 1..Len(rs) |-> rs[i].speed]]

Frame(time, rs) ==
    [time |-> time,
     positions |-> [i \in 1..Len(rs) |-> rs[i].position],
     stamina |-> [i \in 1..Len(rs) |-> rs[i].stamina],
     speeds |-> [i \in 1..Len(rs) |-> rs[i].speed]]

AllFinished(rs) == \A i \in 1..Len(rs) : rs[i].finished

\* LoopCondition without the safety cap on the simulated time.
LoopCondition_NoCap(time, rs) == ~AllFinished(rs)

\* LoopCondition with the cap compared by <=.
LoopCondition_CapIncluded(time, rs) == time <= MAX_RACE_TIME /\ ~AllFinished(rs)

\* The condition of the while loop.
LoopCondition(time, rs) == time < MAX_RACE_TIME /\ ~AllFinished(rs)

\* ------------------------------------------------------------------------
\* 6. Results
\* ------------------------------------------------------------------------

\* Stands for the sentinel 1e9 of sort_key, which exceeds the integers of the
\* model once scaled: a key above every time the loop can produce.
SORT_SENTINEL == 1000000000

\* sort_key with a sentinel below every finish time.
sort_key_LowSentinel(r) == IF r.finish_time # None THEN r.finish_time ELSE -1

sort_key(r) == IF r.finish_time # None THEN r.finish_time ELSE SORT_SENTINEL

\* InsertByKey placing i before the elements of equal key.
RECURSIVE InsertByKey_BeforeEqual(_, _, _)
InsertByKey_BeforeEqual(rs, s, i) ==
    IF s = <<>> THEN <<i>>
    ELSE IF sort_key(rs[i]) <= sort_key(rs[Head(s)]) THEN <<i>> \o s
    ELSE <<Head(s)>> \o InsertByKey_BeforeEqual(rs, Tail(s), i)

\* Insert the roster index i into the sorted index sequence s, after every
\* element whose key is less than or equal to its own.
RECURSIVE InsertByKey(_, _, _)
InsertByKey(rs, s, i) ==
    IF s = <<>> THEN <<i>>
    ELSE IF sort_key(rs[i]) < sort_key(rs[Head(s)]) THEN <<i>> \o s
    ELSE <<Head(s)>> \o InsertByKey(rs, Tail(s), i)

\* sorted(runners, key=sort_key), as the roster indices in sorted order: a
\* stable sort of the first n runners.
RECURSIVE sorted(_, _)
sorted(rs, n) == IF n = 0 THEN <<>> ELSE InsertByKey(rs, sorted(rs, n - 1), n)

\* time_str: "DNF", or the finish time formatted to two decimals.
TimeStr(r) ==
    IF r.finish_time # None
      THEN [dnf |-> FALSE, centiseconds |-> (r.finish_time * 100 + Scale \div 2) \div Scale]
      ELSE [dnf |-> TRUE, centiseconds |-> 0]

TableData(rs, ord) ==
    [idx \in 1..Len(ord) |->
        [Place |-> idx, Runner |-> rs[ord[idx]].name, System |-> rs[ord[idx]].system,
         FinishTime |-> TimeStr(rs[ord[idx]]),
         Personality |-> rs[ord[idx]].personality, Ability |-> rs[ord[idx]].ability]]

\* ------------------------------------------------------------------------
\* The program: main runs simulate_race, then ranks the runners.
\* ------------------------------------------------------------------------

NoCall == [n |-> 0, dt |-> 0, global_time |-> 0, race_progress |-> 0, was_finished |-> FALSE]

Init ==
    /\ runners \in Rosters
    /\ t = 0
    /\ frames = <<>>
    /\ pc = "loop"
    /\ ordered = <<>>
    /\ table_data = <<>>
    /\ call = NoCall

\* One iteration of the while loop of simulate_race.
Tick ==
    /\ pc = "loop"
    /\ LoopCondition(t, runners)
    /\ LET race_progress == RaceProgress(runners) IN
         runners' = UpdateRunners(runners, 1, t, race_progress)
    /\ frames' = Append(frames, Frame(t, runners'))
    /\ t' = t + DT
    /\ UNCHANGED <<pc, ordered, table_data, call>>

\* The loop condition fails: simulate_race returns frames and runners.
Return ==
    /\ pc = "loop"
    /\ ~LoopCondition(t, runners)
    /\ pc' = "results"
    /\ UNCHANGED <<runners, t, frames, ordered, table_data, call>>

\* main, after the animation: sort the runners and build the table.
Results ==
    /\ pc = "results"
    /\ ordered' = sorted(runners, Len(runners))
    /\ table_data' = TableData(runners, ordered')
    /\ pc' = "done"
    /\ UNCHANGED <<runners, t, frames, call>>

Next == Tick \/ Return \/ Results

Spec == Init /\ [][Next]_vars

\* A step of the program, told by its effect on t and pc alone: the loop body
\* advances t, the return and the ranking move pc.  Under Spec the steps that
\* satisfy it are the steps of Next, and it is enabled exactly when Next is.
Step ==
    \/ pc = "loop" /\ LoopCondition(t, runners) /\ t' = t + DT /\ pc' = pc
    \/ pc = "loop" /\ ~LoopCondition(t, runners) /\ pc' = "results" /\ t' = t
    \/ pc = "results" /\ pc' = "done" /\ t' = t

\* The program keeps running: nothing suspends the loop or the ranking.
FairSpec == Spec /\ WF_<<t, pc>>(Step)

\* ------------------------------------------------------------------------
\* The update rule on its own: one runner, update called with arguments of
\* the caller's choice.
\* ------------------------------------------------------------------------

\* Number of update calls made on the runner.
MaxCalls == 4

DtValues == {0, DT, 20 * Scale}

GlobalTimeValues == {0, 30 * Scale}

RaceProgressValues == {0, 700}

InitU ==
    /\ runners \in {MakeRoster(<<c>>) : c \in Range(Catalog)}
    /\ t = 0
    /\ frames = <<>>
    /\ pc = "update"
    /\ ordered = <<>>
    /\ table_data = <<>>
    /\ call = NoCall

\* r.update(dt, global_time, race_progress) on the roster's only runner.
UpdateCall ==
    /\ pc = "update"
    /\ call.n < MaxCalls
    /\ \E dt \in DtValues, global_time \in GlobalTimeValues,
          race_progress \in RaceProgressValues :
          /\ runners' = [runners EXCEPT ![1] = update(@, dt, global_time, race_progress)]
          /\ call' = [n |-> call.n + 1, dt |-> dt, global_time |-> global_time,
                      race_progress |-> race_progress,
                      was_finished |-> runners[1].finished]
    /\ UNCHANGED <<t, frames, pc, ordered, table_data>>

NextU == UpdateCall

SpecU == InitU /\ [][NextU]_vars

\* ------------------------------------------------------------------------
\* Properties
\* ------------------------------------------------------------------------

Indices == 1..Len(runners)

\* The dynamic race state of a runner.
Dynamic(r) == <<r.position, r.speed, r.stamina, r.finished, r.finish_time>>

\* The static parameters lie in their declared ranges.
InDeclaredRanges(r) ==
    r.top_speed > 0 /\ r.burst_multiplier >= Scale /\ r.fatigue_factor >= 0

\* C1: once a runner is finished, an update call with any arguments leaves
\* its position, speed, stamina, finished and finish_time unchanged.
C1_FinishedIsFrozen ==
    [][\A i \in Indices : runners[i].finished => Dynamic(runners'[i]) = Dynamic(runners[i])]_vars

\* An update with a positive time step, at a time other than the finish
\* time, was called on a runner that had already finished.
C1_Witness ==
    /\ call.n > 0 /\ call.was_finished /\ call.dt > 0
    /\ runners[1].finished /\ runners[1].finish_time # call.global_time

\* C2: finish_time is unset until the tick on which the position reaches
\* RACE_DISTANCE, is set on that tick to the global_time passed to it (the
\* tick's start time t), and keeps that value on every later tick.
C2_FinishTimeIsTickStart ==
    [][\A i \in Indices :
          /\ runners[i].position < RACE_DISTANCE => runners[i].finish_time = None
          /\ runners'[i].position < RACE_DISTANCE => runners'[i].finish_time = None
          /\ (runners[i].position < RACE_DISTANCE /\ runners'[i].position >= RACE_DISTANCE)
                => runners'[i].finish_time = t /\ t' = t + DT
          /\ runners[i].position >= RACE_DISTANCE
                => runners'[i].finish_time = runners[i].finish_time]_vars

\* A runner finished at least two ticks ago and the race is still on.
C2_Witness ==
    \E i \in Indices :
        /\ runners[i].finish_time # None
        /\ t >= runners[i].finish_time + 3 * DT
        /\ pc = "loop" /\ ~AllFinished(runners)

\* C3: over every tick the position of every runner does not decrease.
C3_PositionNonDecreasing ==
    [][\A i \in Indices : runners'[i].position >= runners[i].position]_vars

\* A runner has advanced over several ticks and is slowing down: its speed is
\* below the speed recorded for the previous tick.
C3_Witness ==
    /\ Len(frames) >= 2
    /\ \E i \in Indices :
          /\ runners[i].position > frames[Len(frames) - 1].positions[i]
          /\ frames[Len(frames) - 1].positions[i] > 0
          /\ runners[i].speed < frames[Len(frames) - 1].speeds[i]

\* C4: stamina starts at stamina_max and after every tick lies in
\* 0..stamina_max, for every ability.
C4_StaminaInRange ==
    \A i \in Indices :
        /\ 0 <= runners[i].stamina /\ runners[i].stamina <= runners[i].stamina_max
        /\ frames = <<>> => runners[i].stamina = runners[i].stamina_max

\* A runner with bonus regeneration has run for some ticks and the clamp
\* holds its stamina at stamina_max; another runner is exhausted.
C4_Witness ==
    /\ Len(frames) > 0
    /\ \E i \in Indices :
          /\ runners[i].ability \in {"heart_engine", "deep_inhale"}
          /\ runners[i].speed > 0
          /\ runners[i].stamina = runners[i].stamina_max

\* The most top_speed * max(burst_multiplier, 1.1).
SpeedBound(r) == Mul(r.top_speed, Max(r.burst_multiplier, 1100))

\* C5: for a runner with parameters in the declared ranges, after every
\* tick 0 <= speed <= top_speed * max(burst_multiplier, 1.1).
C5_SpeedWithinBurstBound ==
    \A i \in Indices :
        InDeclaredRanges(runners[i])
            => 0 <= runners[i].speed /\ runners[i].speed <= SpeedBound(runners[i])

\* A runner in the declared ranges runs faster than its top speed.
C5_Witness ==
    \E i \in Indices :
        InDeclaredRanges(runners[i]) /\ runners[i].speed > runners[i].top_speed

\* C6, as stated: for a runner with parameters in the declared ranges,
\* after every tick 0 <= speed <= top_speed.
C6_SpeedWithinTopSpeed ==
    \A i \in Indices :
        InDeclaredRanges(runners[i])
            => 0 <= runners[i].speed /\ runners[i].speed <= runners[i].top_speed

\* The factor on top_speed up to which the runner's ability raises the
\* target speed.
AbilityFactor(r) ==
    IF r.ability = "power_burst" THEN 1100
    ELSE IF r.ability = "adrenaline_surge" THEN r.burst_multiplier
    ELSE IF r.ability = "energy_conversion" THEN 1050
    ELSE Scale

\* C6, amended: for a runner with parameters in the declared ranges, after
\* every tick 0 <= speed <= top_speed, except that the limit is
\* 1.1 * top_speed for power_burst, burst_multiplier * top_speed for
\* adrenaline_surge and 1.05 * top_speed for energy_conversion.
C6_SpeedWithinAbilityLimit ==
    \A i \in Indices :
        InDeclaredRanges(runners[i])
            => /\ 0 <= runners[i].speed
               /\ runners[i].speed <= Mul(runners[i].top_speed, AbilityFactor(runners[i]))

\* A runner whose ability does not raise the limit runs at its top speed.
C6_Witness ==
    \E i \in Indices :
        /\ InDeclaredRanges(runners[i])
        /\ AbilityFactor(runners[i]) = Scale
        /\ runners[i].speed = runners[i].top_speed

\* ordered lists every runner of the roster once.
IsRanking == Len(ordered) = Len(runners) /\ \A i \in Indices : \E k \in 1..Len(ordered) : ordered[k] = i

\* The place of the roster's i-th runner in the final ranking.
Place(i) == CHOOSE k \in 1..Len(ordered) : ordered[k] = i

FinishTime(i) == runners[i].finish_time

\* C7, as stated: in the final ranking, for any two finished runners A and
\* B, A is placed before B if and only if A.finish_time < B.finish_time.
C7_BeforeIffFaster ==
    pc = "done" =>
        /\ IsRanking
        /\ \A a, b \in Indices :
              (a # b /\ FinishTime(a) # None /\ FinishTime(b) # None)
                 => (Place(a) < Place(b) <=> FinishTime(a) < FinishTime(b))

\* C7, amended: in the final ranking, for any two finished runners A and B,
\* A is placed before B if and only if A.finish_time < B.finish_time, or the
\* finish times are equal and A comes before B in the roster.
C7_BeforeIffFasterOrTiedEarlier ==
    pc = "done" =>
        /\ IsRanking
        /\ \A a, b \in Indices :
              (a # b /\ FinishTime(a) # None /\ FinishTime(b) # None)
                 => (Place(a) < Place(b)
                       <=> \/ FinishTime(a) < FinishTime(b)
                           \/ FinishTime(a) = FinishTime(b) /\ a < b)

\* The ranking holds two runners with equal finish times, and a runner that
\* finished before one ahead of it in the roster.
C7_Witness ==
    /\ pc = "done"
    /\ \E a, b \in Indices : a < b /\ FinishTime(a) # None /\ FinishTime(a) = FinishTime(b)
    /\ \E a, b \in Indices : a < b /\ FinishTime(b) # None /\ FinishTime(b) < FinishTime(a)

\* C8: in the final ranking every unfinished runner is placed after every
\* finished one, and runners of equal sort key (equal finish_time, or both
\* unfinished) keep their roster order.
C8_UnfinishedLastAndStable ==
    pc = "done" =>
        /\ IsRanking
        /\ \A a, b \in Indices :
              /\ (FinishTime(a) # None /\ FinishTime(b) = None) => Place(a) < Place(b)
              /\ (a < b /\ FinishTime(a) = FinishTime(b)) => Place(a) < Place(b)

\* An unfinished runner stands in the roster before a finished one, and two
\* unfinished runners are ranked.
C8_Witness ==
    /\ pc = "done"
    /\ \E a, b \in Indices : a < b /\ FinishTime(a) = None /\ FinishTime(b) # None
    /\ \E a, b \in Indices : a < b /\ FinishTime(a) = None /\ FinishTime(b) = None

\* ceil(MAX_RACE_TIME / DT).
MaxTicks == (MAX_RACE_TIME + DT - 1) \div DT

\* C9: the race loop terminates and the program completes; a tick is
\* performed exactly while t < MAX_RACE_TIME and a runner is unfinished, the
\* loop is left at the first tick boundary where that fails, after at most
\* ceil(MAX_RACE_TIME / DT) ticks.
C9_LoopTerminates ==
    /\ <>(pc = "done")
    /\ [](Len(frames) <= MaxTicks /\ t = Len(frames) * DT)
    /\ [](pc # "loop" => (AllFinished(runners) \/ t >= MAX_RACE_TIME))
    /\ [][(pc = "loop" /\ t < MAX_RACE_TIME /\ ~AllFinished(runners))
             <=> Len(frames') = Len(frames) + 1]_vars
    /\ [][(pc = "loop" /\ ~(t < MAX_RACE_TIME /\ ~AllFinished(runners)))
             => (pc' = "results" /\ frames' = frames /\ runners' = runners)]_vars

\* The program completed after the time cap ended the loop with a runner
\* unfinished, on the last tick the cap allows.
C9_Witness ==
    /\ pc = "done"
    /\ ~AllFinished(runners)
    /\ Len(frames) = MaxTicks
    /\ \E i \in Indices : runners[i].finished

\* C10: if no runner reaches RACE_DISTANCE before the time cap, then at the
\* loop's exit every runner has finished = false and finish_time unset, every
\* row of the table reads DNF, and the last tick's time t satisfies
\* MAX_RACE_TIME - DT <= t < MAX_RACE_TIME.
C10_AllDnfAtCap ==
    (pc # "loop" /\ \A i \in Indices : runners[i].position < RACE_DISTANCE)
        => /\ \A i \in Indices : ~runners[i].finished /\ runners[i].finish_time = None
           /\ frames # <<>>
           /\ MAX_RACE_TIME - DT <= frames[Len(frames)].time
           /\ frames[Len(frames)].time < MAX_RACE_TIME
           /\ t >= MAX_RACE_TIME
           /\ pc = "done" => \A k \in 1..Len(table_data) : table_data[k].FinishTime.dnf

\* The table is built for a roster of runners that moved but did not reach
\* RACE_DISTANCE before the cap.
C10_Witness ==
    /\ pc = "done"
    /\ Len(table_data) > 1
    /\ \A i \in Indices : runners[i].position < RACE_DISTANCE
    /\ \E i \in Indices : runners[i].position > 0

\* The orders in which the runners of a tick are updated: every permutation
\* of a roster of up to three runners; the roster order, its reverse and its
\* rotation by one for a longer roster.
Orders(n) ==
    IF n <= 3
      THEN {p \in [1..n -> 1..n] : \A i, j \in 1..n : p[i] = p[j] => i = j}
      ELSE {[i \in 1..n |-> i], [i \in 1..n |-> n + 1 - i], [i \in 1..n |-> (i % n) + 1]}

\* The runners after update was called on them in the given order, from the
\* k-th of the order on, all with the same global_time and race_progress.
RECURSIVE UpdateInOrder(_, _, _, _, _)
UpdateInOrder(rs, order, k, global_time, race_progress) ==
    IF k > Len(order) THEN rs
    ELSE UpdateInOrder(
             [rs EXCEPT ![order[k]] = update(rs[order[k]], DT, global_time, race_progress)],
             order, k + 1, global_time, race_progress)

\* C11: within a tick every runner's update receives the race_progress
\* computed from the positions held before the tick, so updating the runners
\* in any order yields the state the tick leaves.
C11_TickOrderIndependent ==
    [][t' # t =>
          /\ \A i \in Indices :
                runners'[i] = update(runners[i], DT, t, RaceProgress(runners))
          /\ \A order \in Orders(Len(runners)) :
                runners' = UpdateInOrder(runners, order, 1, t, RaceProgress(runners))]_vars

\* In a roster of several runners, the race progress has passed a threshold
\* of a runner whose target speed depends on it, and that runner is running.
C11_Witness ==
    /\ Len(runners) >= 2
    /\ pc = "loop"
    /\ RaceProgress(runners) >= 400
    /\ \E i, j \in Indices :
          /\ i < j
          /\ runners[j].personality = "tactical"
          /\ ~runners[j].finished
          /\ runners[i].position # runners[j].position

\* C12: the loop appends exactly one snapshot per tick; the k-th snapshot
\* (from 0) has time k*dt, the start time of its tick, and holds in roster
\* order the position, stamina and speed every runner has after the tick.
C12_OneSnapshotPerTick ==
    /\ [](/\ t = Len(frames) * DT
          /\ \A k \in 1..Len(frames) :
                /\ frames[k].time = (k - 1) * DT
                /\ Len(frames[k].positions) = Len(runners)
                /\ Len(frames[k].stamina) = Len(runners)
                /\ Len(frames[k].speeds) = Len(runners))
    /\ [][t' # t =>
            /\ Len(frames') = Len(frames) + 1
            /\ SubSeq(frames', 1, Len(frames)) = frames
            /\ \A i \in Indices :
                  /\ frames'[Len(frames')].positions[i] = runners'[i].position
                  /\ frames'[Len(frames')].stamina[i] = runners'[i].stamina
                  /\ frames'[Len(frames')].speeds[i] = runners'[i].speed]_vars
    /\ [][t' = t => frames' = frames]_vars

\* Several snapshots of a roster of several runners are recorded, and the
\* last differs from the one before it.
C12_Witness ==
    /\ Len(frames) >= 3
    /\ Len(runners) >= 2
    /\ frames[Len(frames)].positions # frames[Len(frames) - 1].positions
    /\ frames[Len(frames)].positions[1] # frames[Len(frames)].positions[2]

\* The static parameters of two runners agree, name and lane aside.
SameStatic(a, b) ==
    /\ a.acceleration = b.acceleration /\ a.top_speed = b.top_speed
    /\ a.stamina_max = b.stamina_max /\ a.stamina_regen = b.stamina_regen
    /\ a.burst_multiplier = b.burst_multiplier /\ a.fatigue_factor = b.fatigue_factor
    /\ a.personality = b.personality /\ a.ability = b.ability

\* C13: two runners of a roster with the same static parameters, name and
\* lane aside, have the same position, speed and stamina in every snapshot
\* and the same finish_time, and the ranking places the one that comes first
\* in the roster ahead of the other.
C13_TwinsTie ==
    \A a, b \in Indices :
        (a < b /\ SameStatic(runners[a], runners[b]))
            => /\ Dynamic(runners[a]) = Dynamic(runners[b])
               /\ \A k \in 1..Len(frames) :
                     /\ frames[k].positions[a] = frames[k].positions[b]
                     /\ frames[k].speeds[a] = frames[k].speeds[b]
                     /\ frames[k].stamina[a] = frames[k].stamina[b]
               /\ pc = "done" => Place(a) < Place(b)

\* Two runners with the same static parameters, whose target speed depends
\* on the race progress, finished behind a faster runner that follows them
\* in the roster, and the ranking is made.
C13_Witness ==
    /\ pc = "done"
    /\ \E a, b, c \in Indices :
          /\ a < b /\ b < c
          /\ SameStatic(runners[a], runners[b])
          /\ (runners[a].personality = "tactical" \/ runners[a].ability = "power_burst")
          /\ FinishTime(a) # None
          /\ FinishTime(c) # None /\ FinishTime(c) < FinishTime(a)

\* The roster of the reference scenario: one calm runner without ability,
\* acceleration 5, top_speed 10, stamina_max 100, stamina_regen 10,
\* burst_multiplier 1, fatigue_factor 0.
IsScenarioRoster ==
    /\ Len(runners) = 1
    /\ runners[1].acceleration = 5000 /\ runners[1].top_speed = 10000
    /\ runners[1].stamina_max = 100000 /\ runners[1].stamina_regen = 10000
    /\ runners[1].burst_multiplier = 1000 /\ runners[1].fatigue_factor = 0
    /\ runners[1].personality = "calm" /\ runners[1].ability = "none"

\* C15, as stated: the runner of the reference scenario finishes, and its
\* finish_time is within 2 ticks (0.2 s) of 25.0 s.
C15_FinishWithinTwoTicks ==
    (IsScenarioRoster /\ pc # "loop")
        => /\ runners[1].finished
           /\ 25 * Scale - 2 * DT <= runners[1].finish_time
           /\ runners[1].finish_time <= 25 * Scale + 2 * DT

\* C15, amended: the runner of the reference scenario finishes on the 258th
\* tick, so its finish_time is that tick's start time 257 * dt = 25.7 s,
\* 7 ticks after 25.0 s.
C15_FinishOnTick258 ==
    (IsScenarioRoster /\ pc # "loop")
        => /\ runners[1].finished
           /\ Len(frames) = 258
           /\ runners[1].finish_time = 257 * DT

\* The race of the reference scenario is over and ranked.
C15_Witness ==
    IsScenarioRoster /\ pc = "done" /\ runners[1].finished /\ Len(table_data) = 1

\* C16, as stated: a runner with top_speed <= 0, fatigue_factor >= 0 and
\* stamina_regen >= 0 has speed_fraction 0 and speed 0 after every tick.
C16_NoTopSpeedNoSpeed ==
    \A i \in Indices :
        (runners[i].top_speed <= 0 /\ runners[i].fatigue_factor >= 0
            /\ runners[i].stamina_regen >= 0)
            => SpeedFraction(runners[i]) = 0 /\ runners[i].speed = 0

\* The effective_target_speed of the tick that update(dt, global_time,
\* race_progress) performs on the unfinished runner r.
EffectiveTargetOf(r, dt, global_time, race_progress) ==
    LET ability_stamina == AbilityStamina(r, dt)
        target_speed == AbilityTarget(r, TargetSpeed(r, race_progress), ability_stamina,
                                      global_time, race_progress)
    IN EffectiveTargetSpeed(r, target_speed, StaminaMechanics(r, ability_stamina, dt))

\* C17: on a tick of an unfinished runner the speed moves toward the tick's
\* effective_target_speed without crossing it: from below the target it rises
\* by at most acceleration*dt and stays at or below the target, otherwise it
\* falls by at most acceleration*1.3*dt and stays at or above the target.
C17_SpeedApproachesTarget ==
    [][t' # t =>
          \A i \in Indices :
              ~runners[i].finished =>
                  LET r == runners[i]
                      target == EffectiveTargetOf(r, DT, t, RaceProgress(runners))
                      new == runners'[i].speed
                  IN IF r.speed < target
                       THEN /\ r.speed <= new /\ new <= target
                            /\ new - r.speed <= Mul(r.acceleration, DT)
                       ELSE /\ target <= new /\ new <= r.speed
                            /\ r.speed - new <= Mul(Mul(r.acceleration, 1300), DT)]_vars

\* On the last tick one runner of the roster slowed down to a speed above 0
\* and another sped up.
C17_Witness ==
    /\ Len(frames) >= 2
    /\ \E i, j \in Indices :
          /\ frames[Len(frames)].speeds[i] < frames[Len(frames) - 1].speeds[i]
          /\ frames[Len(frames)].speeds[i] > 0
          /\ frames[Len(frames)].speeds[j] > frames[Len(frames) - 1].speeds[j]

\* The trigger of deep_inhale at a position: above 0, and its floor a
\* multiple of 20.
InhaleTrigger(position) == position > 0 /\ (position \div Scale) % 20 = 0

\* C18: on a tick of an unfinished deep_inhale runner the bonus
\* 3.0 * stamina_regen * dt is added to the stamina exactly when the pre-tick
\* position is above 0 and its floor is a multiple of 20.  The trigger is not
\* once per crossing: C18_Witness is a state in which it held on two
\* consecutive ticks inside one one-metre window.
C18_InhaleBonusOnTrigger ==
    [][t' # t =>
          \A i \in Indices :
              (runners[i].ability = "deep_inhale" /\ ~runners[i].finished) =>
                  LET r == runners[i]
                      bonus == IF InhaleTrigger(r.position)
                                 THEN Mul(Mul(r.stamina_regen, 3000), DT) ELSE 0
                  IN runners'[i].stamina = StaminaMechanics(r, r.stamina + bonus, DT)]_vars

\* The last two ticks of a deep_inhale runner both started inside the same
\* one-metre window at a multiple of 20 m beyond the start, and the stamina
\* rose on both.
C18_Witness ==
    /\ Len(frames) >= 3
    /\ \E i \in Indices :
          LET before == frames[Len(frames) - 2]
              first == frames[Len(frames) - 1]
              second == frames[Len(frames)]
          IN /\ runners[i].ability = "deep_inhale"
             /\ InhaleTrigger(before.positions[i])
             /\ InhaleTrigger(first.positions[i])
             /\ before.positions[i] \div Scale = first.positions[i] \div Scale
             /\ before.positions[i] < first.positions[i]
             /\ before.positions[i] >= 20 * Scale
             /\ first.stamina[i] > before.stamina[i]
             /\ second.stamina[i] > first.stamina[i]

\* min_speed of structural_stability: 0.9 * 0.85 * top_speed.
StabilityFloor(r) == Mul(765, r.top_speed)

\* C19: once the speed of a structural_stability runner with top_speed > 0
\* is at least 0.9*0.85*top_speed after a tick, it is so after every later
\* tick.
C19_StabilityFloorKept ==
    [][\A i \in Indices :
          (runners[i].ability = "structural_stability" /\ runners[i].top_speed > 0
              /\ runners[i].speed >= StabilityFloor(runners[i]))
              => runners'[i].speed >= StabilityFloor(runners[i])]_vars

\* A structural_stability runner runs at the floor with its stamina so low
\* that the fatigue penalty alone would put its target below the floor.
C19_Witness ==
    \E i \in Indices :
        /\ runners[i].ability = "structural_stability" /\ runners[i].top_speed > 0
        /\ ~runners[i].finished
        /\ runners[i].speed = StabilityFloor(runners[i])
        /\ Mul(Mul(850, runners[i].top_speed),
               Scale - Mul(Scale - Div(runners[i].stamina, runners[i].stamina_max),
                           runners[i].fatigue_factor))
             < StabilityFloor(runners[i])

\* C20: in every state of a race, for every runner, the position lies in
\* 0..RACE_DISTANCE, and finished, finish_time being set and
\* position = RACE_DISTANCE hold together or not at all.
C20_FinishedIffAtDistance ==
    \A i \in Indices :
        /\ 0 <= runners[i].position /\ runners[i].position <= RACE_DISTANCE
        /\ runners[i].finished <=> runners[i].finish_time # None
        /\ runners[i].finished <=> runners[i].position = RACE_DISTANCE

\* One runner of the roster has finished while another is under way.
C20_Witness ==
    \E i, j \in Indices :
        /\ runners[i].finished /\ runners[i].position = RACE_DISTANCE
        /\ ~runners[j].finished /\ runners[j].position > 0

====
